---- MODULE Spec2Model ----
(***************************************************************************)
(* State machine of the snake game of app.py.  The state is Streamlit's    *)
(* session state (snake, direction, food, score, game_over, is_playing,    *)
(* speed); the operations are the button handlers and the game-loop block  *)
(* of app().  A script run is cut at every st.* call when another button   *)
(* is pressed, and buttons pressed during the sleep of the game loop are   *)
(* all seen by the next run, so several handlers can run between two runs  *)
(* of the game loop; move_snake_logic contains no st.* call and is atomic. *)
(*                                                                         *)
(* Speeds are fixed-point integers in units of 1e-8 second (0.2 s is       *)
(* 20000000), so that "speed *= 0.95" is (speed * 95) \div 100: exact for  *)
(* the first three decays, truncated afterwards.                           *)
(***************************************************************************)
EXTENDS Integers, Sequences, FiniteSets, TLC

\* Bounds of the exhaustive model: the side of the grid, and the longest snake.
SmallGrid == 3
MaxLen == 6

\* Bound of the model in which the snake can fill the grid: the side of the grid.
FullGrid == 2

\* Bound of the long game played on the full grid: the longest snake.
MaxLenLong == 142

\* Bound of the game played on the full grid up to the third speed-up: the
\* longest snake.
MaxLenStage == 16

\* Program constants.
GRID_SIZE == 20
INITIAL_SPEED == 20000000
MIN_SPEED == 5000000

VARIABLES
    size,        \* the side of the grid in this run of the model (GRID_SIZE of the code)
    snake,       \* st.session_state.snake: sequence of cells, head first
    direction,   \* st.session_state.direction: (dx, dy)
    food,        \* st.session_state.food
    score,       \* st.session_state.score
    game_over,   \* st.session_state.game_over
    is_playing,  \* st.session_state.is_playing
    speed,       \* st.session_state.speed, in 1e-8 s
    pc,          \* "ready": between handlers; "place_food": inside the loop of place_food
    moved,       \* history: the direction the last tick of this game moved with, or NoDir
    paused,      \* history: the game was paused and not restarted since
    last,        \* history: the last handler and its outcome
    before,      \* history: the phase in which the last handler was called
    arg,         \* history: the direction passed to the last handle_direction, or NoDir
    draw         \* (x, y) of place_food while its loop runs, NoCell otherwise

vars == <<size, snake, direction, food, score, game_over, is_playing, speed,
          pc, moved, paused, last, before, arg, draw>>

UP == <<-1, 0>>
DOWN == <<1, 0>>
LEFT == <<0, -1>>
RIGHT == <<0, 1>>
Directions == {UP, DOWN, LEFT, RIGHT}
NoDir == <<0, 0>>
NoCell == <<-1, -1>>

Cells(n) == (0 .. n - 1) \X (0 .. n - 1)

Range(s) == {s[i] : i \in 1 .. Len(s)}

Centre(n) == <<n \div 2, n \div 2>>

\* Variant of FreeCells: place_food returning its first draw, without the test.
FreeCells_unchecked(n, body) == Cells(n)

\* The cells place_food can return: it redraws while the draw is in the snake.
FreeCells(n, body) == Cells(n) \ Range(body)

\* Phase of the game as the flags encode it.
phase ==
    IF game_over THEN "GAME_OVER"
    ELSE IF is_playing THEN "PLAYING"
    ELSE IF paused THEN "PAUSED"
    ELSE "READY"

\* initialize_game_state: first run of the script.
InitState(n) ==
    /\ size = n
    /\ snake = <<Centre(n)>>
    /\ direction = RIGHT
    /\ food \in FreeCells(n, <<Centre(n)>>)
    /\ score = 0
    /\ game_over = FALSE
    /\ is_playing = FALSE
    /\ speed = INITIAL_SPEED
    /\ pc = "ready"
    /\ moved = NoDir
    /\ paused = FALSE
    /\ last = "init"
    /\ before = "READY"
    /\ arg = NoDir
    /\ draw = NoCell

Init == InitState(SmallGrid)

\* handle_direction(new_direction): a direction button.
\* Variant of NotReversal: the new direction compared with the current one.
NotReversal_same(new_direction, current) ==
    new_direction # current

\* The test of handle_direction: the new direction is not the current one negated.
NotReversal(new_direction, current) ==
    new_direction # <<-current[1], -current[2]>>

\* Variant of handle_direction: without the early return on game_over.
handle_direction_unguarded(d) ==
    /\ pc = "ready"
    /\ IF NotReversal(d, direction)
       THEN direction' = d
       ELSE direction' = direction
    /\ last' = "turn"
    /\ before' = phase
    /\ draw' = draw
    /\ arg' = d
    /\ UNCHANGED <<size, snake, food, score, game_over, is_playing, speed,
                   pc, moved, paused>>

handle_direction(d) ==
    /\ pc = "ready"
    /\ IF game_over
       THEN direction' = direction
       ELSE IF NotReversal(d, direction)
            THEN direction' = d
            ELSE direction' = direction
    /\ last' = "turn"
    /\ before' = phase
    /\ draw' = draw
    /\ arg' = d
    /\ UNCHANGED <<size, snake, food, score, game_over, is_playing, speed,
                   pc, moved, paused>>

\* Variant of reset_game: the score is not reset.
reset_game_keeps_score ==
    /\ snake' = <<Centre(size)>>
    /\ direction' = RIGHT
    /\ food' \in FreeCells(size, <<Centre(size)>>)
    /\ score' = score
    /\ game_over' = FALSE
    /\ is_playing' = TRUE
    /\ speed' = INITIAL_SPEED
    /\ moved' = NoDir
    /\ paused' = FALSE
    /\ last' = "reset"
    /\ before' = phase
    /\ draw' = draw
    /\ arg' = NoDir
    /\ UNCHANGED <<size, pc>>

\* Variant of reset_game: the direction is not reset.
reset_game_keeps_direction ==
    /\ snake' = <<Centre(size)>>
    /\ direction' = direction
    /\ food' \in FreeCells(size, <<Centre(size)>>)
    /\ score' = 0
    /\ game_over' = FALSE
    /\ is_playing' = TRUE
    /\ speed' = INITIAL_SPEED
    /\ moved' = NoDir
    /\ paused' = FALSE
    /\ last' = "reset"
    /\ before' = phase
    /\ draw' = draw
    /\ arg' = NoDir
    /\ UNCHANGED <<size, pc>>

\* reset_game.
reset_game ==
    /\ snake' = <<Centre(size)>>
    /\ direction' = RIGHT
    /\ food' \in FreeCells(size, <<Centre(size)>>)
    /\ score' = 0
    /\ game_over' = FALSE
    /\ is_playing' = TRUE
    /\ speed' = INITIAL_SPEED
    /\ moved' = NoDir
    /\ paused' = FALSE
    /\ last' = "reset"
    /\ before' = phase
    /\ draw' = draw
    /\ arg' = NoDir
    /\ UNCHANGED <<size, pc>>

\* The "Pause Game" button, shown only while is_playing.
PauseButton ==
    /\ pc = "ready"
    /\ is_playing
    /\ is_playing' = FALSE
    /\ paused' = TRUE
    /\ last' = "pause"
    /\ before' = phase
    /\ draw' = draw
    /\ arg' = NoDir
    /\ UNCHANGED <<size, snake, direction, food, score, game_over, speed, pc, moved>>

\* The "Start Game" / "Play Again" button, shown only while not is_playing.
StartButton ==
    /\ pc = "ready"
    /\ ~is_playing
    /\ reset_game

new_head == <<snake[1][1] + direction[1], snake[1][2] + direction[2]>>

\* Variant of Collides: the body only, no wall.
Collides_body(h) == h \in Range(snake)

\* Variant of Collides: walls only.
Collides_walls(h) ==
    \/ h[1] < 0
    \/ h[1] >= size
    \/ h[2] < 0
    \/ h[2] >= size

\* Variant of Collides: the tail cell, about to be vacated, does not count.
Collides_but_tail(h) ==
    \/ h[1] < 0
    \/ h[1] >= size
    \/ h[2] < 0
    \/ h[2] >= size
    \/ h \in Range(SubSeq(snake, 1, Len(snake) - 1))

Collides(h) ==
    \/ h[1] < 0
    \/ h[1] >= size
    \/ h[2] < 0
    \/ h[2] >= size
    \/ h \in Range(snake)

\* "speed *= 0.95" in fixed point.
Decay(s) == (s * 95) \div 100

\* Variant of SpeedAfter: a speed-up at every point, not every fifth.
SpeedAfter_every_point(sc, s) == IF s > MIN_SPEED THEN Decay(s) ELSE s

SpeedAfter(sc, s) == IF sc % 5 = 0 /\ s > MIN_SPEED THEN Decay(s) ELSE s

\* Variant of Insert: snake.append(new_head).
Insert_append(s, h) == s \o <<h>>

\* Variant of Insert: snake[0] = new_head, overwriting the head.
Insert_overwrite(s, h) == <<h>> \o Tail(s)

\* snake.insert(0, new_head) and snake.pop().
Insert(s, h) == <<h>> \o s

\* Variant of Pop: pop(0), removing the head.
Pop_front(s) == SubSeq(s, 2, Len(s))

Pop(s) == SubSeq(s, 1, Len(s) - 1)

\* Variant of Increment: the score counted in cells of the grown snake.
Increment_cells(sc) == sc + 2

\* "score += 1".
Increment(sc) == sc + 1

\* move_snake_logic.
move_snake_logic ==
    IF Collides(new_head)
    THEN /\ game_over' = TRUE
         /\ is_playing' = FALSE
         /\ last' = "die"
         /\ UNCHANGED <<size, snake, direction, food, score, speed, pc, moved, paused>>
    ELSE IF new_head = food
    THEN /\ snake' = Insert(snake, new_head)
         /\ score' = Increment(score)
         /\ moved' = direction
         /\ IF FreeCells(size, snake') # {}
            THEN /\ food' \in FreeCells(size, snake')
                 /\ speed' = SpeedAfter(score', speed)
                 /\ pc' = "ready"
                 /\ last' = "eat"
            ELSE /\ food' = food
                 /\ speed' = speed
                 /\ pc' = "place_food"
                 /\ last' = "hang"
         /\ UNCHANGED <<size, direction, game_over, is_playing, paused>>
    ELSE /\ snake' = Pop(Insert(snake, new_head))
         /\ moved' = direction
         /\ last' = "move"
         /\ UNCHANGED <<size, direction, food, score, game_over, is_playing,
                        speed, pc, paused>>

\* Variant of LoopRuns: the loop running whenever the game is not over.
LoopRuns_paused == ~game_over

\* The test of the game-loop block.
LoopRuns == is_playing /\ ~game_over

\* The game-loop block of app(): one run of the script reaching it.
GameLoop ==
    /\ pc = "ready"
    /\ arg' = NoDir
    /\ before' = phase
    /\ draw' = draw
    /\ IF LoopRuns
       THEN move_snake_logic
       ELSE /\ last' = "idle"
            /\ UNCHANGED <<size, snake, direction, food, score, game_over,
                           is_playing, speed, pc, moved, paused>>

\* One more iteration of place_food's loop when every cell is in the snake:
\* the draw is rejected and the loop goes round again.
PlaceFoodRetry ==
    /\ pc = "place_food"
    /\ \E c \in Cells(size) :
          /\ c \in Range(snake)
          /\ draw' = c
    /\ UNCHANGED <<size, snake, direction, food, score, game_over, is_playing,
                   speed, pc, moved, paused, last, before, arg>>

Turn == \E d \in Directions : handle_direction(d)

\* A run of the game loop, within the bound on the snake's length.
Tick ==
    /\ GameLoop
    /\ Len(snake') <= MaxLen

Next ==
    \/ Turn
    \/ PauseButton
    \/ StartButton
    \/ Tick

Spec == Init /\ [][Next]_vars

(***************************************************************************)
(* reset_game as a function of the state: Spec with reset_game called in   *)
(* every state, not only where app() shows its button.  The states reached *)
(* are those of Spec.                                                      *)
(***************************************************************************)
ResetCall ==
    /\ pc = "ready"
    /\ reset_game

NextReset ==
    \/ Turn
    \/ PauseButton
    \/ Tick
    \/ ResetCall

SpecReset == Init /\ [][NextReset]_vars

(***************************************************************************)
(* The same program on a grid small enough for the snake to fill it, with  *)
(* no bound on the snake's length.                                         *)
(***************************************************************************)
InitFull == InitState(FullGrid)

NextFull ==
    \/ Turn
    \/ PauseButton
    \/ StartButton
    \/ GameLoop
    \/ PlaceFoodRetry

SpecFull == InitFull /\ [][NextFull]_vars

\* The script reruns itself while the game is on (st.rerun() at the end of the
\* game-loop block), and the loop of place_food keeps drawing.
SpecFullFair ==
    /\ SpecFull
    /\ WF_vars(GameLoop)
    /\ WF_vars(PlaceFoodRetry)

(***************************************************************************)
(* A long game on the full GRID_SIZE x GRID_SIZE grid.  The player steers  *)
(* along a fixed closed tour of the grid (one direction button at most     *)
(* between two runs of the game loop), and the random source of place_food *)
(* is one that always draws the cell in front of the snake on that tour.   *)
(* Every behaviour of SpecLong is a behaviour of the program.              *)
(***************************************************************************)
Tour(c) ==
    IF c[2] = 0 THEN (IF c[1] > 0 THEN UP ELSE RIGHT)
    ELSE IF c[1] % 2 = 0 THEN (IF c[2] < size - 1 THEN RIGHT ELSE DOWN)
    ELSE IF c[1] = size - 1 THEN LEFT
    ELSE IF c[2] > 1 THEN LEFT ELSE DOWN

Ahead(c) == <<c[1] + Tour(c)[1], c[2] + Tour(c)[2]>>

InitLong ==
    /\ InitState(GRID_SIZE)
    /\ food = Ahead(Centre(GRID_SIZE))

TurnLong ==
    /\ is_playing
    /\ direction # Tour(snake[1])
    /\ handle_direction(Tour(snake[1]))

TickLong ==
    /\ direction = Tour(snake[1])
    /\ GameLoop
    /\ Len(snake') <= MaxLenLong
    /\ food' = Ahead(snake'[1])

StartLong ==
    /\ StartButton
    /\ food' = Ahead(snake'[1])

NextLong ==
    \/ TurnLong
    \/ TickLong
    \/ PauseButton
    \/ StartLong

SpecLong == InitLong /\ [][NextLong]_vars

(***************************************************************************)
(* The first fifteen points of a game on the full grid: the player steers  *)
(* along the same tour, and place_food draws the cell in front of the      *)
(* snake or the one after it, so that ticks that eat alternate with ticks  *)
(* that only move.                                                         *)
(***************************************************************************)
FoodAhead(c) == {Ahead(c), Ahead(Ahead(c))}

InitStage ==
    /\ InitState(GRID_SIZE)
    /\ food \in FoodAhead(Centre(GRID_SIZE))

TickStage ==
    /\ direction = Tour(snake[1])
    /\ GameLoop
    /\ Len(snake') <= MaxLenStage
    /\ food' \in FoodAhead(snake'[1]) \cup {food}

StartStage ==
    /\ StartButton
    /\ food' \in FoodAhead(snake'[1])

NextStage ==
    \/ TurnLong
    \/ TickStage
    \/ PauseButton
    \/ StartStage

SpecStage == InitStage /\ [][NextStage]_vars

(***************************************************************************)
(* Properties.  The vocabulary below is that of the specification (body,   *)
(* heading, phase, ticks) and is defined on the state alone, apart from    *)
(* the code's helpers.                                                     *)
(***************************************************************************)
Opposite(d) == <<-d[1], -d[2]>>

NoDuplicates(s) == \A i, j \in 1 .. Len(s) : i # j => s[i] # s[j]

InGrid(c) == c[1] >= 0 /\ c[1] < size /\ c[2] >= 0 /\ c[2] < size

InBody(c) == \E i \in 1 .. Len(snake) : snake[i] = c

\* head + heading
Target == <<snake[1][1] + direction[1], snake[1][2] + direction[2]>>

\* This step is a tick taken in PLAYING.
TickStep ==
    /\ pc = "ready"
    /\ phase = "PLAYING"
    /\ last' \in {"die", "move", "eat", "hang"}

\* This step is a call of turn.
TurnStep == pc = "ready" /\ last' = "turn"

\* C1: in every state reached by a sequence of turn, tick, pause and reset
\* operations the body has no duplicate cell and the food is not in the body.
C1_BodyDistinctFoodFree ==
    /\ NoDuplicates(snake)
    /\ pc = "ready" => ~InBody(food)

C1_Witness ==
    /\ last = "eat"
    /\ Len(snake) >= 3
    /\ phase = "PLAYING"

\* C2: a tick in PLAYING whose new head is outside the grid or in the body
\* before the tick (its tail cell included) sets the phase to GAME_OVER and
\* leaves body, food, score, speed and heading as they were.
C2_CollisionEndsGame ==
    [][(TickStep /\ (~InGrid(Target) \/ InBody(Target)))
        => /\ phase' = "GAME_OVER"
           /\ UNCHANGED <<snake, food, score, speed, direction>>]_vars

C2_Witness ==
    /\ last = "die"
    /\ phase = "GAME_OVER"
    /\ Len(snake) >= 4
    /\ Target = snake[Len(snake)]

\* C3: a tick in PLAYING whose new head is in the grid, not in the body and not
\* the food makes the body the new head followed by the old body without its
\* last cell, and leaves food, score, speed, heading and phase unchanged.
C3_PlainMove ==
    [][(TickStep /\ InGrid(Target) /\ ~InBody(Target) /\ Target # food)
        => /\ snake' = <<Target>> \o SubSeq(snake, 1, Len(snake) - 1)
           /\ Len(snake') = Len(snake)
           /\ phase' = phase
           /\ UNCHANGED <<food, score, speed, direction>>]_vars

C3_Witness ==
    /\ last = "move"
    /\ Len(snake) >= 3
    /\ phase = "PLAYING"

\* C4: a tick in PLAYING whose new head is the food cell prepends the new head
\* without removing the tail, adds exactly 1 to the score, and sets food to a
\* cell of the grid that is not in the body after the tick.
C4_EatGrows ==
    [][(TickStep /\ InGrid(Target) /\ ~InBody(Target) /\ Target = food)
        => /\ snake' = <<Target>> \o snake
           /\ Len(snake') = Len(snake) + 1
           /\ score' = score + 1
           /\ pc' = "ready" =>
                 /\ InGrid(food')
                 /\ \A i \in 1 .. Len(snake') : snake'[i] # food']_vars

C4_Witness ==
    /\ last = "eat"
    /\ score >= 2
    /\ Len(snake) = score + 1

\* C5: in every reachable state speed is at least MIN_SPEED, and between two
\* resets speed never increases across a turn or a tick.
C5_SpeedFloorAndDecrease ==
    /\ [](speed >= MIN_SPEED)
    /\ [][last' # "reset" => speed' <= speed]_vars

\* C6: when a tick eats the food while the body occupies every other cell of
\* the grid, the tick returns and the game is in a terminal state; it is not
\* left looping in the placement of the food.
C6_BoardFullEndsGame ==
    (\A c \in Cells(size) : InBody(c))
        => /\ pc = "ready"
           /\ phase # "PLAYING"

\* C7: the heading a tick moves with is never the opposite of the heading the
\* previous tick of the same game moved with, whatever turns came in between.
C7_NoReversalBetweenTicks ==
    [][(TickStep /\ last' # "die" /\ moved # NoDir)
        => moved' # Opposite(moved)]_vars

\* C8: outside GAME_OVER, turn(d) with d opposite to the heading leaves the
\* heading unchanged, turn(d) with another d makes d the heading, and body,
\* food, score, speed and phase are unchanged either way.
C8_TurnEffect ==
    [][(TurnStep /\ phase # "GAME_OVER")
        => /\ direction' = IF arg' = Opposite(direction) THEN direction ELSE arg'
           /\ phase' = phase
           /\ UNCHANGED <<snake, food, score, speed>>]_vars

C8_Witness ==
    /\ last = "turn"
    /\ phase = "PLAYING"
    /\ arg = Opposite(direction)
    /\ Len(snake) >= 2

\* C9: once in GAME_OVER no turn, tick or pause changes heading, body, food,
\* score, speed or phase; only reset leaves GAME_OVER, and it leads to PLAYING.
C9_GameOverIsTerminal ==
    [][phase = "GAME_OVER"
        => IF last' = "reset"
           THEN phase' = "PLAYING"
           ELSE /\ phase' = "GAME_OVER"
                /\ UNCHANGED <<snake, direction, food, score, speed>>]_vars

C9_Witness ==
    /\ phase = "GAME_OVER"
    /\ last = "turn"
    /\ arg # direction
    /\ arg # Opposite(direction)

\* C10: pausing in PLAYING leads to PAUSED, and the step from PAUSED back to
\* PLAYING keeps body, heading, food, score and speed as they were when paused.
C10_ResumeKeepsGame ==
    [][/\ (phase = "PLAYING" /\ last' = "pause") => phase' = "PAUSED"
       /\ (phase = "PAUSED" /\ phase' = "PLAYING")
            => UNCHANGED <<snake, direction, food, score, speed>>]_vars

\* C11: reset, called in any phase and from any state, yields a body of the
\* single centre cell, heading RIGHT, score 0, speed INITIAL_SPEED, phase
\* PLAYING and a food cell inside the grid that is not the centre cell.
C11_ResetReinitialises ==
    [][(pc = "ready" /\ last' = "reset")
        => /\ snake' = <<<<size \div 2, size \div 2>>>>
           /\ direction' = <<0, 1>>
           /\ score' = 0
           /\ speed' = INITIAL_SPEED
           /\ phase' = "PLAYING"
           /\ InGrid(food')
           /\ food' # <<size \div 2, size \div 2>>]_vars

C11_Witness ==
    /\ last = "reset"
    /\ before = "PLAYING"
    /\ phase = "PLAYING"
    /\ snake = <<<<size \div 2, size \div 2>>>>

\* A run of the game-loop block, whatever it does.
LoopStep ==
    /\ pc = "ready"
    /\ last' \in {"idle", "die", "move", "eat", "hang"}

\* C12: whenever the phase is not PLAYING, a tick changes nothing: body,
\* heading, food, score, speed and phase are unchanged.
C12_TickOutsidePlayingIsNoOp ==
    [][(LoopStep /\ phase # "PLAYING")
        => /\ phase' = phase
           /\ UNCHANGED <<snake, direction, food, score, speed>>]_vars

C12_Witness ==
    /\ last = "idle"
    /\ phase = "PAUSED"
    /\ Len(snake) >= 2

\* C13: across turns, ticks and pauses (no reset) the length of the body never
\* decreases from one state to the next.
C13_LengthNeverDecreases ==
    [][last' # "reset" => Len(snake') >= Len(snake)]_vars

C13_Witness ==
    /\ last = "move"
    /\ Len(snake) >= 4
    /\ score >= 3

\* C14: across turns, ticks and pauses (no reset) the score never decreases,
\* and it changes only by +1, on a tick whose new head is the food cell.
C14_ScoreStepsByOneOnEating ==
    [][last' # "reset"
        => \/ score' = score
           \/ /\ score' = score + 1
              /\ TickStep
              /\ Target = food]_vars

C14_Witness ==
    /\ last = "eat"
    /\ score = 3
    /\ before = "PLAYING"

\* C15: within a game speed changes only on a tick that eats and brings the
\* score to a multiple of 5 while the speed before it is above MIN_SPEED, and
\* it is then multiplied by exactly 0.95; so a game started at 0.2 has speed
\* 0.2 for scores 0-4, 0.19 for scores 5-9 and 0.1805 for scores 10-14.
C15_SpeedSteps ==
    /\ [](pc = "ready" =>
            /\ score \in 0 .. 4 => speed = 20000000
            /\ score \in 5 .. 9 => speed = 19000000
            /\ score \in 10 .. 14 => speed = 18050000)
    /\ [][last' # "reset" =>
            /\ speed' # speed =>
                 /\ TickStep
                 /\ Target = food
                 /\ (score + 1) % 5 = 0
                 /\ speed > MIN_SPEED
                 /\ speed' * 100 = speed * 95
            /\ (/\ TickStep
                /\ InGrid(Target)
                /\ ~InBody(Target)
                /\ Target = food
                /\ (score + 1) % 5 = 0
                /\ speed > MIN_SPEED
                /\ pc' = "ready") => speed' * 100 = speed * 95]_vars

C15_Witness ==
    /\ last = "eat"
    /\ score = 10
    /\ speed = 18050000

\* C16: in every reachable state every cell of the body and the food cell lie
\* in the grid (0 <= row < N, 0 <= col < N), and the body has at least one cell.
C16_CellsInGrid ==
    /\ Len(snake) >= 1
    /\ \A i \in 1 .. Len(snake) : InGrid(snake[i])
    /\ InGrid(food)

C16_Witness ==
    /\ last \in {"move", "eat"}
    /\ Len(snake) >= 3
    /\ snake[1][1] = 0
    /\ snake[Len(snake)][2] = size - 1

\* C17: in every reachable state the score is the length of the body minus 1.
C17_ScoreIsLengthMinusOne == score = Len(snake) - 1

C17_Witness ==
    /\ pc = "place_food"
    /\ last = "hang"
    /\ score = Len(snake) - 1
    /\ score >= 3

Adjacent(a, b) ==
    \/ a[1] = b[1] /\ (a[2] - b[2] = 1 \/ b[2] - a[2] = 1)
    \/ a[2] = b[2] /\ (a[1] - b[1] = 1 \/ b[1] - a[1] = 1)

\* C18: in every reachable state each pair of consecutive cells of the body
\* is orthogonally adjacent: the snake is a connected path on the grid.
C18_BodyIsAPath ==
    \A i \in 1 .. Len(snake) - 1 : Adjacent(snake[i], snake[i + 1])

C18_Witness ==
    /\ last = "move"
    /\ Len(snake) >= 4
    /\ snake[1][1] # snake[3][1]
    /\ snake[1][2] # snake[3][2]

\* The number of cells between the head and the wall it is heading for.
Room ==
    IF direction = UP THEN snake[1][1]
    ELSE IF direction = DOWN THEN size - 1 - snake[1][1]
    ELSE IF direction = LEFT THEN snake[1][2]
    ELSE size - 1 - snake[1][2]

\* C19: a game that is PLAYING and sees no turn, pause or reset reaches
\* GAME_OVER (within N ticks); it never stays PLAYING for ever.
C19_StraightRunEnds ==
    [](phase = "PLAYING"
         => <>(phase = "GAME_OVER" \/ last \in {"turn", "pause", "reset"}))

\* The part of C19 that holds: a tick that returns ends the game or brings the
\* head one cell closer to the wall in front of it, which is less than N away.
StraightRunShortens ==
    /\ [](Room \in 0 .. size - 1)
    /\ [][TickStep => \/ phase' = "GAME_OVER"
                      \/ pc' = "place_food"
                      \/ Room' = Room - 1]_vars

====
